---- MODULE Spec2Model ----
(***************************************************************************)
(* Model of gfw/truth.py (Truth API: Landsat thumbnail lookup) and         *)
(* gfw/cdb.py (CartoDB SQL gateway).                                       *)
(*                                                                         *)
(* Conventions                                                             *)
(*  - A text value that the code parses (ll, dim, the query) is a tuple of *)
(*    one-character strings; the code's split/int/float are the operators  *)
(*    Split/PyInt/PyFloat below.                                           *)
(*  - A 'YYYY-MM-DD' text is the tuple <<y, m, d>> of its fields; a        *)
(*    datetime is a day ordinal (days since EpochYear-01-01); strptime and *)
(*    strftime convert between the two with the Gregorian calendar.        *)
(*  - Angles are exact fixed-point numbers: 1 unit is the angle that       *)
(*    createBox takes for one meter, 1/(60*1602) degree.                   *)
(*  - Timestamps are ticks, TicksPerDay ticks to the day.                  *)
(*  - A Python value that can be None, a str or a dict is a record with a  *)
(*    kind field.                                                          *)
(***************************************************************************)
EXTENDS Integers, Sequences, FiniteSets, TLC

VARIABLES op, pc, params, catalog, boom, coords, init_date, k, image_id,
          urls, trace, retval, fault, args, query, outcome, logs

vars == <<op, pc, params, catalog, boom, coords, init_date, k, image_id,
          urls, trace, retval, fault, args, query, outcome, logs>>

(***************************************************************************)
(* Bounds of the model.                                                    *)
(***************************************************************************)
MaxDim == 3
MaxMissing == 1
TicksPerDay == 2

(***************************************************************************)
(* Program constants.                                                      *)
(***************************************************************************)
MinutesPerDegree == 60
MetersPerMinute == 1602
DefaultOffsetDays == 30
EpochYear == 2013

UnitsPerDegree == MinutesPerDegree * MetersPerMinute
UnitsPerTenth == UnitsPerDegree \div 10

PyNone == [kind |-> "None"]
PyStr(u) == [kind |-> "str", v |-> u]
PyList(l) == [kind |-> "list", v |-> l]
PyDict(d) == [kind |-> "dict", v |-> d]
NoFault == "none"

(***************************************************************************)
(* Text: str.split(','), int(), float().                                   *)
(***************************************************************************)
Digits == <<"0", "1", "2", "3", "4", "5", "6", "7", "8", "9">>
DigitSet == {Digits[i] : i \in 1..10}
DigitVal(c) == (CHOOSE i \in 1..10 : Digits[i] = c) - 1

RECURSIVE Split(_)
Split(s) ==
    IF s = <<>> THEN << <<>> >>
    ELSE LET rest == Split(Tail(s))
         IN  IF Head(s) = ","
             THEN << <<>> >> \o rest
             ELSE << <<Head(s)>> \o Head(rest) >> \o Tail(rest)

AllDigits(s) == Len(s) > 0 /\ \A i \in 1..Len(s) : s[i] \in DigitSet

RECURSIVE NatVal(_)
NatVal(s) == IF s = <<>> THEN 0
             ELSE 10 * NatVal(SubSeq(s, 1, Len(s) - 1)) + DigitVal(s[Len(s)])

Unsigned(s) == IF s # <<>> /\ Head(s) \in {"-", "+"} THEN Tail(s) ELSE s
Sign(s) == IF s # <<>> /\ Head(s) = "-" THEN -1 ELSE 1

\* int(s): a decimal integer with an optional sign, else ValueError.
PyIntOk(s) == AllDigits(Unsigned(s))
PyInt(s) == Sign(s) * NatVal(Unsigned(s))

\* float(s) on the texts of this model: an optional sign, digits and at most
\* one fractional digit; the value is in angle units.
DotAt(s) == {i \in 1..Len(s) : s[i] = "."}
WholePart(s) == IF DotAt(s) = {} THEN s
                ELSE SubSeq(s, 1, (CHOOSE i \in DotAt(s) : TRUE) - 1)
FracPart(s) == IF DotAt(s) = {} THEN <<>>
               ELSE SubSeq(s, (CHOOSE i \in DotAt(s) : TRUE) + 1, Len(s))
PyFloatOk(s) ==
    LET u == Unsigned(s)
    IN  /\ Cardinality(DotAt(u)) <= 1
        /\ AllDigits(WholePart(u))
        /\ FracPart(u) = <<>> \/ (Len(FracPart(u)) = 1 /\ AllDigits(FracPart(u)))
PyFloat(s) ==
    LET u == Unsigned(s)
    IN  Sign(s) * (NatVal(WholePart(u)) * UnitsPerDegree
                   + NatVal(FracPart(u)) * UnitsPerTenth)

(***************************************************************************)
(* Dates: datetime.strptime / strftime with '%Y-%m-%d', timedelta(days).   *)
(***************************************************************************)
IsLeap(y) == (y % 4 = 0 /\ y % 100 # 0) \/ y % 400 = 0
MonthLen(y, m) ==
    IF m = 2 THEN (IF IsLeap(y) THEN 29 ELSE 28)
    ELSE IF m \in {4, 6, 9, 11} THEN 30 ELSE 31

RECURSIVE DaysBefore(_, _)
DaysBefore(y, m) ==
    IF m = 1
    THEN (IF y = EpochYear THEN 0 ELSE DaysBefore(y - 1, 12) + MonthLen(y - 1, 12))
    ELSE DaysBefore(y, m - 1) + MonthLen(y, m - 1)

StrptimeOk(t) ==
    /\ t[1] >= EpochYear
    /\ t[2] \in 1..12
    /\ t[3] \in 1..MonthLen(t[1], t[2])
Strptime(t) == DaysBefore(t[1], t[2]) + t[3] - 1

RECURSIVE OrdToYMD(_, _, _)
OrdToYMD(n, y, m) ==
    IF n < MonthLen(y, m) THEN <<y, m, n + 1>>
    ELSE IF m = 12 THEN OrdToYMD(n - MonthLen(y, m), y + 1, 1)
    ELSE OrdToYMD(n - MonthLen(y, m), y, m + 1)
Strftime(d) == OrdToYMD(d, EpochYear, 1)

\* The instant (in ticks) of midnight of a datetime.
Millis(d) == d * TicksPerDay

(***************************************************************************)
(* createBox                                                               *)
(***************************************************************************)
createBoxBadRing(lon, lat, w, h, ccw) ==
    LET h_deg == h \div 2
        w_deg == w \div 2
    IN  << <<lon + w_deg, lat + h_deg>>,
           <<lon - w_deg, lat + h_deg>>,
           <<lon - w_deg, lat + h_deg>>,
           <<lon + w_deg, lat - h_deg>>,
           <<lon + w_deg, lat + h_deg>> >>

\* w and h are Python ints: (h / 2) is floor division, then the quotient is
\* divided by 60.*1602. meters per degree, which is one unit per meter.
createBox(lon, lat, w, h, ccw) ==
    LET h_deg == h \div 2
        w_deg == w \div 2
    IN  << <<lon + w_deg, lat + h_deg>>,
           <<lon - w_deg, lat + h_deg>>,
           <<lon - w_deg, lat - h_deg>>,
           <<lon + w_deg, lat - h_deg>>,
           <<lon + w_deg, lat + h_deg>> >>

(***************************************************************************)
(* The imagery platform's catalog: scenes with an id, an acquisition time  *)
(* and a footprint (a lon/lat rectangle).                                  *)
(***************************************************************************)
RingLons(ring) == {ring[i][1] : i \in 1..Len(ring)}
RingLats(ring) == {ring[i][2] : i \in 1..Len(ring)}
SetMin(S) == CHOOSE x \in S : \A y \in S : x <= y
SetMax(S) == CHOOSE x \in S : \A y \in S : x >= y

\* filterBounds(poly): the scene's footprint intersects the polygon.
Intersects(scene, ring) ==
    /\ scene.lon_min <= SetMax(RingLons(ring))
    /\ SetMin(RingLons(ring)) <= scene.lon_max
    /\ scene.lat_min <= SetMax(RingLats(ring))
    /\ SetMin(RingLats(ring)) <= scene.lat_max

filterDateClosedEnd(coll, begin, end) ==
    {s \in coll : begin <= s.time /\ s.time <= end}

\* filterDate(start, end): start inclusive, end exclusive.
filterDate(coll, begin, end) ==
    {s \in coll : begin <= s.time /\ s.time < end}

filterBounds(coll, ring) == {s \in coll : Intersects(s, ring)}

\* sort('system:time_start', False).limit(1): the features left, at most one;
\* among scenes of the same latest time the platform returns any one.
SortDescLimit1(coll) == {s \in coll : \A t \in coll : t.time <= s.time}

\* landsatID's filtered collection for alert_date (a date text).
landsatColl(cat, alert_date, ring, offset_days) ==
    LET d == Strptime(alert_date)
        begin_date == d - offset_days
    IN  SortDescLimit1(
            filterBounds(
                filterDate(cat, Millis(begin_date), Millis(Strptime(alert_date))),
                ring))

\* landsatID: the id of the first feature; ValueError when alert_date is no
\* date, IndexError when there is no feature.
landsatIDFault(cat, alert_date, ring, offset_days) ==
    IF ~StrptimeOk(alert_date) THEN "ValueError"
    ELSE IF landsatColl(cat, alert_date, ring, offset_days) = {} THEN "IndexError"
    ELSE NoFault
landsatIDResults(cat, alert_date, ring, offset_days) ==
    {s.id : s \in landsatColl(cat, alert_date, ring, offset_days)}

\* _img_url: the thumbnail request the platform turns into a URL.
img_url(id, ring) ==
    [loc |-> <<"LANDSAT/", id>>, rgb |-> <<"B6", "B5", "B4">>, pan |-> "B8",
     min |-> "0.01", max |-> "0.5", gamma |-> "1.7",
     scale |-> 30, crs |-> "EPSG:4326", region |-> ring]

(***************************************************************************)
(* _boom_hammer's labels and their dates.                                  *)
(***************************************************************************)
Labels == <<"alert_date", "t_minus_one", "t_minus_two", "t_minus_three">>
OffsetDays == <<0, 30, 60, 90>>

LabelDateAllOneBack(init, i) == IF i = 0 THEN init ELSE init - OffsetDays[2]

\* init_date, t_minus_one, t_minus_two, t_minus_three for i = 0..3.
LabelDate(init, i) == init - OffsetDays[i + 1]

(***************************************************************************)
(* _params_prep                                                            *)
(***************************************************************************)
Get(p, key) == IF key \in DOMAIN p THEN p[key] ELSE PyNone

params_prepSwapped(p) ==
    LET ll == Split(p["ll"])
        dim == Split(p["dim"])
    IN  [lat |-> PyFloat(ll[2]), lon |-> PyFloat(ll[1]),
         h |-> PyInt(dim[1]), w |-> PyInt(dim[2]),
         res |-> IF "res" \notin DOMAIN p THEN "true" ELSE p["res"],
         fmt |-> IF "fmt" \notin DOMAIN p THEN "img" ELSE p["fmt"],
         date |-> Get(p, "date"), asset |-> Get(p, "asset")]

\* The exception _params_prep raises on p, or NoFault.
params_prepFault(p) ==
    IF "ll" \notin DOMAIN p THEN "AttributeError"
    ELSE IF \E i \in 1..Len(Split(p["ll"])) : ~PyFloatOk(Split(p["ll"])[i])
         THEN "ValueError"
    ELSE IF Len(Split(p["ll"])) # 2 THEN "ValueError"
    ELSE IF "dim" \notin DOMAIN p THEN "AttributeError"
    ELSE IF \E i \in 1..Len(Split(p["dim"])) : ~PyIntOk(Split(p["dim"])[i])
         THEN "ValueError"
    ELSE IF Len(Split(p["dim"])) # 2 THEN "ValueError"
    ELSE NoFault

\* The dict _params_prep returns when it does not raise.
params_prep(p) ==
    LET ll == Split(p["ll"])
        dim == Split(p["dim"])
    IN  [lat |-> PyFloat(ll[1]), lon |-> PyFloat(ll[2]),
         h |-> PyInt(dim[1]), w |-> PyInt(dim[2]),
         res |-> IF "res" \notin DOMAIN p THEN "true" ELSE p["res"],
         fmt |-> IF "fmt" \notin DOMAIN p THEN "img" ELSE p["fmt"],
         date |-> Get(p, "date"), asset |-> Get(p, "asset")]

(***************************************************************************)
(* Inputs: request parameters as the web layer hands them to find, and the *)
(* scenes the platform's catalog may hold.                                 *)
(***************************************************************************)
RECURSIVE NatStr(_)
NatStr(n) == IF n < 10 THEN <<Digits[n + 1]>>
             ELSE NatStr(n \div 10) \o <<Digits[(n % 10) + 1]>>
IntStr(n) == IF n < 0 THEN <<"-">> \o NatStr(-n) ELSE NatStr(n)
\* A number of tenths of a degree written with one fractional digit.
TenthsStr(t) ==
    LET a == IF t < 0 THEN -t ELSE t
    IN  (IF t < 0 THEN <<"-">> ELSE <<>>)
        \o NatStr(a \div 10) \o <<".">> \o NatStr(a % 10)
Pair(a, b) == a \o <<",">> \o b

LLPairs == {<<10, 20>>, <<12, 18>>, <<-15, 25>>}
LLTexts == {Pair(TenthsStr(q[1]), TenthsStr(q[2])) : q \in LLPairs}
              \cup {TenthsStr(10), Pair(<<"x">>, TenthsStr(20))}
DimVals == 0..MaxDim
DimTexts == {Pair(IntStr(a), IntStr(b)) : a \in DimVals, b \in DimVals}
               \cup {IntStr(MaxDim), Pair(IntStr(1), TenthsStr(15))}

AlertDay == <<2014, 4, 15>>
EarlierDay == <<2014, 3, 16>>
DateTexts == {AlertDay, EarlierDay, <<2014, 2, 30>>}

Optional(key, vals) == {<<>>} \cup {key :> v : v \in vals}
Requests ==
    {[ll |-> l, dim |-> d] @@ dt @@ r @@ f :
        l \in LLTexts, d \in DimTexts,
        dt \in Optional("date", DateTexts),
        r \in Optional("res", {"thumb"}),
        f \in Optional("fmt", {"raw"})}

Near == [lon_min |-> 15 * UnitsPerTenth, lon_max |-> 25 * UnitsPerTenth,
         lat_min |-> 5 * UnitsPerTenth, lat_max |-> 15 * UnitsPerTenth]
Far == [lon_min |-> 500 * UnitsPerTenth, lon_max |-> 510 * UnitsPerTenth,
        lat_min |-> 5 * UnitsPerTenth, lat_max |-> 15 * UnitsPerTenth]
Noon == TicksPerDay \div 2
Scene(id, day, tick, fp) == [id |-> id, time |-> Millis(day) + tick] @@ fp
D0 == Strptime(AlertDay)
ScenePool ==
    { Scene("LC8_A", D0, 0, Near),
      Scene("LC8_B", D0 - 1, Noon, Near),
      Scene("LC8_B2", D0 - 1, Noon, Near),
      Scene("LC8_C", D0 - 1, TicksPerDay - 1, Far),
      Scene("LC8_F", D0 - 45, Noon, Near),
      Scene("LC8_G", D0 - 75, Noon, Near),
      Scene("LC8_E", D0 - 120, 0, Near) }
Catalogs == {c \in SUBSET ScenePool : Cardinality(ScenePool \ c) <= MaxMissing}

(***************************************************************************)
(* State.                                                                  *)
(***************************************************************************)
Call(name, label) == [call |-> name, label |-> label]

Init ==
    /\ op = "idle"
    /\ pc = "idle"
    /\ params = <<>>
    /\ catalog = {}
    /\ boom = <<>>
    /\ coords = <<>>
    /\ init_date = 0
    /\ k = 0
    /\ image_id = ""
    /\ urls = <<>>
    /\ trace = <<>>
    /\ retval = PyNone
    /\ fault = NoFault
    /\ args = <<>>
    /\ query = <<>>
    /\ outcome = [kind |-> "none"]
    /\ logs = <<>>

findVars == <<params, catalog, boom, coords, init_date, k, image_id, urls, trace>>
executeVars == <<query, outcome, logs>>

(***************************************************************************)
(* find(params), one action per statement or per call of _boom_hammer.     *)
(***************************************************************************)
FindCall ==
    /\ pc = "idle"
    /\ \E p \in Requests, c \in Catalogs :
          /\ params' = p
          /\ catalog' = c
    /\ op' = "find"
    /\ pc' = "params_prep"
    /\ UNCHANGED <<boom, coords, init_date, k, image_id, urls, trace, retval,
                   fault, args, executeVars>>

\* boom = _params_prep(params); logging.info(boom)
ParamsPrep ==
    /\ op = "find" /\ pc = "params_prep"
    /\ IF params_prepFault(params) # NoFault
       THEN /\ fault' = params_prepFault(params)
            /\ pc' = "done"
            /\ boom' = boom
       ELSE /\ boom' = params_prep(params)
            /\ pc' = "ee_init"
            /\ fault' = fault
    /\ UNCHANGED <<op, params, catalog, coords, init_date, k, image_id, urls,
                   trace, retval, args, executeVars>>

\* ee.Initialize(...); ee.data.setDeadline(60000)
EEInit ==
    /\ op = "find" /\ pc = "ee_init"
    /\ trace' = trace \o <<Call("ee.Initialize", ""), Call("ee.data.setDeadline", "")>>
    /\ pc' = "boom_hammer"
    /\ UNCHANGED <<op, params, catalog, boom, coords, init_date, k, image_id,
                   urls, retval, fault, args, executeVars>>

\* _boom_hammer up to the dict display: the box and the parsed date.
BoomHammerEnter ==
    /\ op = "find" /\ pc = "boom_hammer"
    /\ coords' = createBox(boom.lon, boom.lat, boom.w, boom.h, TRUE)
    /\ IF "date" \notin DOMAIN params
       THEN fault' = "TypeError" /\ pc' = "done" /\ init_date' = init_date
       ELSE IF ~StrptimeOk(boom.date)
       THEN fault' = "ValueError" /\ pc' = "done" /\ init_date' = init_date
       ELSE fault' = fault /\ pc' = "landsatID" /\ init_date' = Strptime(boom.date)
    /\ k' = 0
    /\ UNCHANGED <<op, params, catalog, boom, image_id, urls, trace, retval,
                   args, executeVars>>

LandsatIDStepSwallowsFailure ==
    /\ op = "find" /\ pc = "landsatID"
    /\ LET str_date == Strftime(LabelDate(init_date, k))
           f == landsatIDFault(catalog, str_date, coords, DefaultOffsetDays)
       IN  /\ trace' = Append(trace, Call("landsatID", Labels[k + 1]))
           /\ IF f # NoFault
              THEN image_id' = "None"
              ELSE image_id' \in landsatIDResults(catalog, str_date, coords,
                                                  DefaultOffsetDays)
    /\ pc' = "img_url"
    /\ UNCHANGED <<op, params, catalog, boom, coords, init_date, k, urls,
                   retval, fault, args, executeVars>>

\* _get(d), first half: landsatID(str_date, coords).
LandsatIDStep ==
    /\ op = "find" /\ pc = "landsatID"
    /\ LET str_date == Strftime(LabelDate(init_date, k))
           f == landsatIDFault(catalog, str_date, coords, DefaultOffsetDays)
       IN  /\ trace' = Append(trace, Call("landsatID", Labels[k + 1]))
           /\ IF f # NoFault
              THEN fault' = f /\ pc' = "done" /\ image_id' = image_id
              ELSE /\ image_id' \in landsatIDResults(catalog, str_date, coords,
                                                     DefaultOffsetDays)
                   /\ pc' = "img_url"
                   /\ fault' = fault
    /\ UNCHANGED <<op, params, catalog, boom, coords, init_date, k, urls,
                   retval, args, executeVars>>

\* _get(d), second half: _img_url(id, coords) becomes the label's entry.
ImgUrlStep ==
    /\ op = "find" /\ pc = "img_url"
    /\ trace' = Append(trace, Call("_img_url", Labels[k + 1]))
    /\ urls' = urls @@ (Labels[k + 1] :> img_url(image_id, coords))
    /\ IF k + 1 < Len(Labels)
       THEN k' = k + 1 /\ pc' = "landsatID"
       ELSE k' = k /\ pc' = "fetch_url"
    /\ UNCHANGED <<op, params, catalog, boom, coords, init_date, image_id,
                   retval, fault, args, executeVars>>

FindFetchesOnlyRaw(tr, fmt) ==
    IF fmt = "raw" THEN Append(tr, Call("_fetch_url", "")) ELSE tr

\* The calls find has made once line 167 has run.
FindFetches(tr, fmt) == Append(tr, Call("_fetch_url", ""))

\* result = _fetch_url(url), where url is the dict _boom_hammer returned: the
\* fetch library is handed a dict for a URL and either raises or answers.
FetchUrlStep ==
    /\ op = "find" /\ pc = "fetch_url"
    /\ trace' = FindFetches(trace, boom.fmt)
    /\ \/ fault' = "FetchError" /\ pc' = "done"
       \/ fault' = fault /\ pc' = "return"
    /\ UNCHANGED <<op, params, catalog, boom, coords, init_date, k, image_id,
                   urls, retval, args, executeVars>>

\* return url
FindReturn ==
    /\ op = "find" /\ pc = "return"
    /\ retval' = PyDict(urls)
    /\ pc' = "done"
    /\ UNCHANGED <<op, params, catalog, boom, coords, init_date, k, image_id,
                   urls, trace, fault, args, executeVars>>

(***************************************************************************)
(* createBox and landsatID called on their own.                            *)
(***************************************************************************)
BoxCentres == {<<20 * UnitsPerTenth, 10 * UnitsPerTenth>>,
               <<-25 * UnitsPerTenth, 15 * UnitsPerTenth>>, <<0, 0>>}

CallCreateBox ==
    /\ pc = "idle"
    /\ \E c \in BoxCentres, w \in DimVals, h \in DimVals, ccw \in BOOLEAN :
          /\ args' = [lon |-> c[1], lat |-> c[2], w |-> w, h |-> h, ccw |-> ccw]
          /\ retval' = PyList(createBox(c[1], c[2], w, h, ccw))
    /\ op' = "createBox"
    /\ pc' = "done"
    /\ UNCHANGED <<findVars, fault, executeVars>>

OffsetChoices == {0, DefaultOffsetDays, 3 * DefaultOffsetDays}

CallLandsatID ==
    /\ pc = "idle"
    /\ \E d \in DateTexts, c \in BoxCentres, off \in OffsetChoices, cat \in Catalogs :
          LET ring == createBox(c[1], c[2], MaxDim, MaxDim, TRUE)
              f == landsatIDFault(cat, d, ring, off)
          IN  /\ args' = [alert_date |-> d, coords |-> ring, offset_days |-> off]
              /\ catalog' = cat
              /\ IF f # NoFault
                 THEN fault' = f /\ retval' = retval
                 ELSE /\ fault' = fault
                      /\ \E id \in landsatIDResults(cat, d, ring, off) :
                            retval' = PyStr(id)
    /\ op' = "landsatID"
    /\ pc' = "done"
    /\ UNCHANGED <<params, boom, coords, init_date, k, image_id, urls, trace,
                   executeVars>>

(***************************************************************************)
(* cdb.execute(query)                                                      *)
(***************************************************************************)
ENDPOINT == "http://wri-01.cartodb.com/api/v1/sql"

\* urllib.quote_plus on one character: letters and digits stay, a space
\* becomes '+', anything else is percent-escaped.
QuoteChar(c) ==
    IF c = " " THEN <<"+">>
    ELSE IF c = "=" THEN <<"%", "3", "D">>
    ELSE IF c = "*" THEN <<"%", "2", "A">>
    ELSE <<c>>
RECURSIVE QuotePlus(_)
QuotePlus(s) == IF s = <<>> THEN <<>> ELSE QuoteChar(Head(s)) \o QuotePlus(Tail(s))
\* url = '%s?%s' % (ENDPOINT, urllib.urlencode(dict(q=query)))
ExecuteUrl(q) == [endpoint |-> ENDPOINT, qs |-> <<"q", "=">> \o QuotePlus(q)]

\* json.loads on a body given as its tokens.
JsonStrings == {"\"rows\"", "\"a\""}
JsonBad == [ok |-> FALSE, val |-> [type |-> "none"], rest |-> <<>>]
JsonOk(v, rest) == [ok |-> TRUE, val |-> v, rest |-> rest]
RECURSIVE ParseValue(_)
ParseValue(t) ==
    IF t = <<>> THEN JsonBad
    ELSE IF Head(t) = "null" THEN JsonOk([type |-> "null"], Tail(t))
    ELSE IF Head(t) \in JsonStrings THEN JsonOk([type |-> "string", s |-> Head(t)], Tail(t))
    ELSE IF Head(t) = "[" /\ Len(t) >= 2 /\ t[2] = "]"
         THEN JsonOk([type |-> "array", items |-> <<>>], SubSeq(t, 3, Len(t)))
    ELSE IF Head(t) = "{" /\ Len(t) >= 2 /\ t[2] = "}"
         THEN JsonOk([type |-> "object", members |-> <<>>], SubSeq(t, 3, Len(t)))
    ELSE IF Head(t) = "{" /\ Len(t) >= 4 /\ t[2] \in JsonStrings /\ t[3] = ":"
         THEN LET r == ParseValue(SubSeq(t, 4, Len(t)))
              IN  IF r.ok /\ r.rest # <<>> /\ Head(r.rest) = "}"
                  THEN JsonOk([type |-> "object", members |-> <<t[2], r.val>>],
                              Tail(r.rest))
                  ELSE JsonBad
    ELSE JsonBad
JsonLoadsOk(body) == ParseValue(body).ok /\ ParseValue(body).rest = <<>>
JsonLoads(body) == ParseValue(body).val

Queries == { <<"s">>, <<"s", " ", "*">>, <<"a", "=", "b", " ", "c">> }
Bodies == { <<"{", "\"rows\"", ":", "[", "]", "}">>,
            <<"[", "]">>,
            <<"{", "\"rows\"", ":", "[", "]">>,
            <<"<html>">>,
            <<>> }
Statuses == {200, 204, 404, 500}
\* What rpc.get_result() does: a response, or one of urlfetch's download
\* errors (DownloadError and its subclasses for a timeout and a DNS failure).
DownloadErrors == {"DownloadError", "DeadlineExceededError", "DNSLookupFailedError"}
Outcomes ==
    {[kind |-> "response", status_code |-> st, content |-> b, error |-> ""] :
        st \in Statuses, b \in Bodies}
    \cup {[kind |-> "error", status_code |-> 0, content |-> <<>>, error |-> e] :
        e \in DownloadErrors}

LogLine(level, text, q) == [level |-> level, text |-> text, query |-> q]

\* Lines 31-34: the url, logging.info(url), make_fetch_call.
ExecuteCall ==
    /\ pc = "idle"
    /\ \E q \in Queries :
          /\ query' = q
          /\ logs' = <<LogLine("info", ExecuteUrl(q), <<>>)>>
    /\ op' = "execute"
    /\ pc' = "get_result"
    /\ UNCHANGED <<findVars, retval, fault, args, outcome>>

\* The log after lines 35-40 have handled outcome o: only the except clause
\* writes the error line.
executeLogs(o, lg, q) ==
    IF o.kind = "error"
    THEN Append(lg, LogLine("error", "CartoDB SQL API Error", q))
    ELSE lg

\* Lines 35-40: the result, the parsed body on 200, else falling off the end.
ExecuteGetResult ==
    /\ op = "execute" /\ pc = "get_result"
    /\ \E o \in Outcomes :
          /\ outcome' = o
          /\ logs' = executeLogs(o, logs, query)
          /\ IF o.kind = "response" /\ o.status_code = 200
             THEN IF JsonLoadsOk(o.content)
                  THEN retval' = [kind |-> "json", v |-> JsonLoads(o.content)]
                       /\ fault' = fault
                  ELSE retval' = retval /\ fault' = "ValueError"
             ELSE retval' = PyNone /\ fault' = fault
    /\ pc' = "done"
    /\ UNCHANGED <<op, findVars, args, query>>

(***************************************************************************)
(* Specification.                                                          *)
(***************************************************************************)
Next ==
    \/ FindCall
    \/ ParamsPrep
    \/ EEInit
    \/ BoomHammerEnter
    \/ LandsatIDStep
    \/ ImgUrlStep
    \/ FetchUrlStep
    \/ FindReturn
    \/ CallCreateBox
    \/ CallLandsatID
    \/ ExecuteCall
    \/ ExecuteGetResult

Spec == Init /\ [][Next]_vars

(***************************************************************************)
(* Properties.                                                             *)
(***************************************************************************)
LabelSet == {Labels[i] : i \in 1..Len(Labels)}
IsPrefix(a, b) == Len(a) <= Len(b) /\ SubSeq(b, 1, Len(a)) = a
CountCalls(tr, name) == Cardinality({i \in 1..Len(tr) : tr[i].call = name})

\* _params_prep has returned its dict.
Prepared == op = "find" /\ (pc \in {"ee_init", "boom_hammer", "landsatID", "img_url",
                                    "fetch_url", "return"}
                            \/ (pc = "done" /\ Len(trace) > 0))
\* _boom_hammer has returned its mapping.
BoomReturned == op = "find" /\ (pc \in {"fetch_url", "return"}
                                \/ (pc = "done" /\ DOMAIN urls = LabelSet))
\* find has returned a value.
FindReturned == op = "find" /\ pc = "done" /\ fault = NoFault

\* The scenes of cat that intersect ring and were acquired in
\* [cutoff - days, cutoff), cutoff a day ordinal.
Eligible(cat, cutoff, days, ring) ==
    {s \in cat : /\ Intersects(s, ring)
                 /\ (cutoff - days) * TicksPerDay <= s.time
                 /\ s.time < cutoff * TicksPerDay}
Latest(S) == {s \in S : \A t \in S : t.time <= s.time}

\* C1: whenever find returns, it returns the alert-date URL alone, a single
\* URL string, and not the mapping of the four URLs.
C1_FindReturnsOnlyAlertUrl ==
    FindReturned => (retval.kind = "str" /\ retval.v = urls["alert_date"])

\* C2: when execute's GET ends in a non-200 status or in a transport failure,
\* execute returns nothing and has logged an error line with the query.
C2_ExecuteLogsEveryFailure ==
    (op = "execute" /\ pc = "done"
       /\ (outcome.kind = "error" \/ outcome.status_code # 200))
    => /\ retval.kind = "None"
       /\ fault = NoFault
       /\ \E i \in 1..Len(logs) : logs[i].level = "error" /\ logs[i].query = query

\* C3: execute never raises: whatever the outbound call did, it ends by
\* returning the parsed body or nothing.
C3_ExecuteNeverRaises ==
    (op = "execute" /\ pc = "done")
    => (fault = NoFault /\ retval.kind \in {"json", "None"})

\* C4: landsatID fails with IndexError when no scene intersects coords with a
\* time in [alert_date - offset_days, alert_date), and otherwise returns the id
\* of a scene of that set with the maximum time, which lies in the window.
C4_LandsatIDNearest ==
    /\ (op = "landsatID" /\ pc = "done" /\ StrptimeOk(args.alert_date))
       => LET cutoff == Strptime(args.alert_date)
              E == Eligible(catalog, cutoff, args.offset_days, args.coords)
          IN  /\ E = {} => (fault = "IndexError" /\ retval.kind = "None")
              /\ E # {} => /\ fault = NoFault
                           /\ \E s \in Latest(E) :
                                 /\ retval.v = s.id
                                 /\ s.time < cutoff * TicksPerDay
                                 /\ s.time >= (cutoff - args.offset_days) * TicksPerDay
    /\ (op = "find" /\ pc = "img_url")
       => \E s \in Latest(Eligible(catalog, init_date - 30 * k, 30, coords)) :
             image_id = s.id

C4_Witness ==
    /\ op = "landsatID" /\ pc = "done" /\ fault = NoFault
    /\ args.alert_date = AlertDay
    /\ args.offset_days = DefaultOffsetDays
    /\ \E s \in catalog : s.id = "LC8_A" /\ Intersects(s, args.coords)
    /\ retval.v = "LC8_B"

C6_FindNeverFetches ==
    op = "find" => CountCalls(trace, "_fetch_url") = 0

\* C6 amended: find invokes _fetch_url exactly once in every call in which
\* _boom_hammer returns, whatever fmt is, after the four lookups; it never
\* invokes it otherwise, and what find returns is the value it held before
\* the fetch.
C6_FindFetchesOnce ==
    op = "find"
    => LET n == CountCalls(trace, "_fetch_url")
       IN  /\ n <= 1
           /\ (BoomReturned /\ pc # "fetch_url") => n = 1
           /\ n = 1 => /\ BoomReturned
                       /\ trace[Len(trace)].call = "_fetch_url"
                       /\ CountCalls(trace, "_img_url") = 4
           /\ FindReturned => retval = PyDict(urls)

C6_Witness ==
    /\ FindReturned
    /\ boom.fmt = "img"
    /\ CountCalls(trace, "_fetch_url") = 1

\* C7: createBox returns a ring of 5 points in (lon, lat) order, closed,
\* its corners symmetric about (lon, lat) with average (lon, lat), the same
\* for either ccw; for w = h = 0 every point is (lon, lat).
C7_CreateBoxRing ==
    (op = "createBox" /\ pc = "done")
    => LET r == retval.v
           c == <<args.lon, args.lat>>
       IN  /\ Len(r) = 5
           /\ r[1] = r[5]
           /\ \A j \in 1..2 :
                 /\ r[1][j] + r[2][j] + r[3][j] + r[4][j] = 4 * c[j]
                 /\ r[1][j] + r[3][j] = 2 * c[j]
                 /\ r[2][j] + r[4][j] = 2 * c[j]
           /\ r[1][2] = r[2][2] /\ r[3][2] = r[4][2]
           /\ r[2][1] = r[3][1] /\ r[4][1] = r[1][1]
           /\ r = createBox(args.lon, args.lat, args.w, args.h, ~args.ccw)
           /\ (args.w = 0 /\ args.h = 0) => \A i \in 1..5 : r[i] = c

C7_Witness ==
    /\ op = "createBox" /\ pc = "done"
    /\ ~args.ccw
    /\ args.w >= 2 /\ args.h >= 2 /\ args.w # args.h
    /\ args.lon # args.lat
    /\ Cardinality({retval.v[i] : i \in 1..5}) = 4

\* C8: _params_prep gives res "true" and fmt "img" when absent and the
\* supplied value otherwise, lat and lon from the first and second component
\* of ll, h and w from the first and second component of dim; the ring that
\* find builds has lon first and lat second in every point.
C8_ParamsPrep ==
    Prepared
    => /\ boom.res = (IF "res" \in DOMAIN params THEN params["res"] ELSE "true")
       /\ boom.fmt = (IF "fmt" \in DOMAIN params THEN params["fmt"] ELSE "img")
       /\ \E q \in LLPairs :
             /\ params["ll"] = Pair(TenthsStr(q[1]), TenthsStr(q[2]))
             /\ boom.lat = q[1] * UnitsPerTenth
             /\ boom.lon = q[2] * UnitsPerTenth
       /\ \E a \in DimVals, b \in DimVals :
             /\ params["dim"] = Pair(IntStr(a), IntStr(b))
             /\ boom.h = a
             /\ boom.w = b
       /\ Len(coords) = 5
          => \A i \in 1..5 :
                /\ coords[i][1] - boom.lon \in {boom.w \div 2, -(boom.w \div 2)}
                /\ coords[i][2] - boom.lat \in {boom.h \div 2, -(boom.h \div 2)}

C8_Witness ==
    /\ Prepared
    /\ Len(coords) = 5
    /\ "res" \notin DOMAIN params /\ "fmt" \in DOMAIN params
    /\ boom.lat = -15 * UnitsPerTenth /\ boom.lon = 25 * UnitsPerTenth
    /\ boom.h = 2 /\ boom.w = 3

\* C9: the ring find builds from the integer dimensions (w, h) spans exactly
\* w meters east-west and h meters north-south at 1602 m to the arc-minute
\* (one unit to the meter), with no truncation for odd w or h.
C9_BoxExtentEqualsDims ==
    (op = "find" /\ Len(coords) = 5)
    => /\ SetMax(RingLons(coords)) - SetMin(RingLons(coords)) = boom.w
       /\ SetMax(RingLats(coords)) - SetMin(RingLats(coords)) = boom.h

\* C10: within one find call the calls are made one after the other in the
\* order session initialization, then for alert_date, t_minus_one, t_minus_two,
\* t_minus_three the lookup and its URL; when a lookup's window is empty the
\* IndexError leaves find, no later lookup is issued and nothing is returned.
CanonicalTrace ==
    <<Call("ee.Initialize", ""), Call("ee.data.setDeadline", ""),
      Call("landsatID", "alert_date"), Call("_img_url", "alert_date"),
      Call("landsatID", "t_minus_one"), Call("_img_url", "t_minus_one"),
      Call("landsatID", "t_minus_two"), Call("_img_url", "t_minus_two"),
      Call("landsatID", "t_minus_three"), Call("_img_url", "t_minus_three"),
      Call("_fetch_url", "")>>

C10_SequentialLookups ==
    op = "find"
    => /\ IsPrefix(trace, CanonicalTrace)
       /\ \A i \in 0..3 :
             (/\ Len(trace) = 3 + 2 * i
              /\ pc # "landsatID"
              /\ Eligible(catalog, init_date - 30 * i, 30, coords) = {})
             => /\ pc = "done"
                /\ fault = "IndexError"
                /\ retval.kind = "None"
                /\ DOMAIN urls = {Labels[j] : j \in 1..i}
       /\ fault = "IndexError"
          => /\ pc = "done"
             /\ retval.kind = "None"
             /\ trace[Len(trace)] = Call("landsatID", Labels[k + 1])

C10_Witness ==
    /\ op = "find" /\ pc = "done" /\ fault = "IndexError"
    /\ k = 2
    /\ DOMAIN urls = {"alert_date", "t_minus_one"}
    /\ Len(trace) = 7

====
